---- MODULE Spec2Model ----
(***************************************************************************)
(* A model of the configuration store of dns-master (src/db_manager.py):   *)
(* the dns_configs table, the sqlite3 connection of each process using it  *)
(* and the handlers __init__, add_config, modify_config, remove_config,    *)
(* clear_configs, get_configs and config_exists; and of the commands of    *)
(* the command-line tool that call them (src/dns_master_cli.py).           *)
(*                                                                         *)
(* Strings that are matched by LIKE (names, filters) are sequences of      *)
(* one-character strings; addresses and descriptions are TLA+ strings.     *)
(* An Optional[str] is <<>> for None and <<s>> for the string s.           *)
(***************************************************************************)
EXTENDS Integers, Sequences, FiniteSets, TLC

VARIABLES
    db,      \* the committed rows of table dns_configs (the database file)
    conn,    \* conn[p]: the sqlite3 connection of process p
    frame,   \* frame[p]: the handler call process p is in, or has finished last
    before,  \* before[p]: the rows process p saw when its last call began
             \* (kept for the calls of Spec)
    schema   \* the tables of the database file

vars == <<db, conn, frame, before, schema>>

(***************************************************************************)
(* Bounds of the model.                                                    *)
(***************************************************************************)
MaxRowid == 2    \* add_config of a new name is called while the next rowid is
                 \* at most this

Procs == {"p1", "p2"}

None == <<>>
Some(x) == <<x>>

\* Python truthiness of an Optional[str] whose string is a character sequence
TruthyName(o) == o # None /\ o[1] # <<>>

(***************************************************************************)
(* The table: CREATE TABLE dns_configs (name TEXT NOT NULL UNIQUE,         *)
(* primary_address TEXT NOT NULL, secondary_address TEXT, description      *)
(* TEXT).  A row also has SQLite's implicit rowid and, as a ghost field,   *)
(* born: a stamp larger than that of every row that was in the table when  *)
(* the row was inserted, so that born orders the rows of a table by the    *)
(* time of their creation.                                                 *)
(***************************************************************************)
Row(rowid, name, primary, secondary, description, born) ==
    [rowid |-> rowid, name |-> name, primary_address |-> primary,
     secondary_address |-> secondary, description |-> description,
     born |-> born]

SetMax(S) == CHOOSE x \in S : \A y \in S : y <= x

\* SQLite gives a new row of a rowid table the largest rowid in use plus one
NewRowid(t) == IF t = {} THEN 1 ELSE SetMax({r.rowid : r \in t}) + 1

\* ghost: the creation stamp of a row inserted into t
NewStamp(t) == IF t = {} THEN 1 ELSE SetMax({r.born : r \in t}) + 1

\* the UNIQUE constraint on name
NamesUnique(t) == \A r1, r2 \in t : r1.name = r2.name => r1 = r2

DmlResult(t, err, rowcount) == [table |-> t, err |-> err, rowcount |-> rowcount]

\* mutant: the table declared without UNIQUE on name
InsertRow_NoUnique(t, name, primary, secondary, description) ==
    DmlResult(t \cup {Row(NewRowid(t), name, primary, secondary, description,
                          NewStamp(t))},
              "none", 1)

\* mutant: the VALUES tuple with secondary_address and description exchanged
InsertRow_Swapped(t, name, primary, secondary, description) ==
    LET new == t \cup {Row(NewRowid(t), name, primary, description, secondary,
                           NewStamp(t))}
    IN  IF NamesUnique(new)
        THEN DmlResult(new, "none", 1)
        ELSE DmlResult(t, "IntegrityError", 0)

\* INSERT INTO dns_configs (name, primary_address, secondary_address,
\* description) VALUES (?, ?, ?, ?)
InsertRow(t, name, primary, secondary, description) ==
    LET new == t \cup {Row(NewRowid(t), name, primary, secondary, description,
                           NewStamp(t))}
    IN  IF NamesUnique(new)
        THEN DmlResult(new, "none", 1)
        ELSE DmlResult(t, "IntegrityError", 0)

\* The SET list modify_config builds: a field is assigned when its argument
\* passes the test of its if statement.
SetsName(a) == TruthyName(a.name)
SetsPrimary(a) == a.primary # None
\* mutant: secondary_address assigned whether or not it was given
SetsSecondary_Always(a) == a.secondary # None \/ TRUE

SetsSecondary(a) == a.secondary # None
SetsDescription(a) == a.description # None
SetListEmpty(a) ==
    ~SetsName(a) /\ ~SetsPrimary(a) /\ ~SetsSecondary(a) /\ ~SetsDescription(a)

\* mutant: a full replace, which writes the omitted optionals as NULL
UpdatedRow_FullReplace(r, a) ==
    [r EXCEPT !.name = IF SetsName(a) THEN a.name[1] ELSE @,
              !.primary_address = IF SetsPrimary(a) THEN a.primary[1] ELSE @,
              !.secondary_address = a.secondary,
              !.description = a.description]

\* mutant: the SET list built without the clause for name
UpdatedRow_NoRename(r, a) ==
    [r EXCEPT !.primary_address = IF SetsPrimary(a) THEN a.primary[1] ELSE @,
              !.secondary_address = IF SetsSecondary(a) THEN a.secondary ELSE @,
              !.description = IF SetsDescription(a) THEN a.description ELSE @]

UpdatedRow(r, a) ==
    [r EXCEPT !.name = IF SetsName(a) THEN a.name[1] ELSE @,
              !.primary_address = IF SetsPrimary(a) THEN a.primary[1] ELSE @,
              !.secondary_address = IF SetsSecondary(a) THEN a.secondary ELSE @,
              !.description = IF SetsDescription(a) THEN a.description ELSE @]

\* mutant: an UPDATE that always assigns the four columns, an argument
\* that was not given being written as it is
UpdateRows_AllColumns(t, identifier, a) ==
    LET hit == {r \in t : r.name = identifier}
        new == (t \ hit) \cup {UpdatedRow_FullReplace(r, a) : r \in hit}
    IN  IF Cardinality(new) = Cardinality(t) /\ NamesUnique(new)
        THEN DmlResult(new, "none", Cardinality(hit))
        ELSE DmlResult(t, "IntegrityError", 0)

\* UPDATE dns_configs SET ... WHERE name = ?   (an empty SET list leaves
\* "UPDATE dns_configs SET WHERE name = ?", which sqlite3 refuses to prepare)
UpdateRows(t, identifier, a) ==
    LET hit == {r \in t : r.name = identifier}
        new == (t \ hit) \cup {UpdatedRow(r, a) : r \in hit}
    IN  IF SetListEmpty(a) THEN DmlResult(t, "OperationalError", 0)
        ELSE IF Cardinality(new) = Cardinality(t) /\ NamesUnique(new)
        THEN DmlResult(new, "none", Cardinality(hit))
        ELSE DmlResult(t, "IntegrityError", 0)

\* mutant: the DELETE of clear_configs, which has no WHERE
DeleteRows_NoWhere(t, identifier) == DmlResult({}, "none", Cardinality(t))

\* mutant: a soft delete, which marks the rows and leaves them in the table
DeleteRows_Soft(t, identifier) ==
    DmlResult(t, "none", Cardinality({r \in t : r.name = identifier}))

\* DELETE FROM dns_configs WHERE name = ?
DeleteRows(t, identifier) ==
    LET hit == {r \in t : r.name = identifier}
    IN  DmlResult(t \ hit, "none", Cardinality(hit))

\* DELETE FROM dns_configs
DeleteAllRows(t) == DmlResult({}, "none", Cardinality(t))

\* the database file: its tables and the rows of dns_configs
File(s, d) == [schema |-> s, db |-> d]

\* mutant: the table dropped and created anew at every start
create_table_Fresh(file) ==
    File(file.schema \cup {"dns_configs"}, {})

\* CREATE TABLE IF NOT EXISTS dns_configs (...); commit
create_table(file) ==
    IF "dns_configs" \in file.schema
    THEN file
    ELSE File(file.schema \cup {"dns_configs"}, {})

(***************************************************************************)
(* name LIKE ?  with the parameter '%' + filter + '%'.  SQLite's LIKE: '%' *)
(* matches any run of characters, '_' any single character, and letters    *)
(* of ASCII compare without regard to case.                                *)
(***************************************************************************)
Lower(c) == CASE c = "A" -> "a" [] c = "B" -> "b" [] OTHER -> c

RECURSIVE LikeMatch(_, _)
LikeMatch(pat, s) ==
    IF pat = <<>> THEN s = <<>>
    ELSE IF Head(pat) = "%"
         THEN LikeMatch(Tail(pat), s) \/ (s # <<>> /\ LikeMatch(pat, Tail(s)))
    ELSE IF Head(pat) = "_"
         THEN s # <<>> /\ LikeMatch(Tail(pat), Tail(s))
    ELSE s # <<>> /\ Lower(Head(pat)) = Lower(Head(s))
                  /\ LikeMatch(Tail(pat), Tail(s))

LikePattern(filter) == <<"%">> \o filter \o <<"%">>

\* SELECT * FROM dns_configs [WHERE name LIKE ?]: the rows the query selects
SelectedRows(t, filter) ==
    IF TruthyName(filter)
    THEN {r \in t : LikeMatch(LikePattern(filter[1]), r.name)}
    ELSE t

\* mutant: the scan made through the index on name (shorter names first)
RECURSIVE ScanOrder_ByName(_)
ScanOrder_ByName(rows) ==
    IF rows = {} THEN <<>>
    ELSE LET first == CHOOSE r \in rows :
                          \A q \in rows : Len(r.name) <= Len(q.name)
         IN  <<first>> \o ScanOrder_ByName(rows \ {first})

\* the scan of a rowid table visits the rows by ascending rowid
RECURSIVE ScanOrder(_)
ScanOrder(rows) ==
    IF rows = {} THEN <<>>
    ELSE LET first == CHOOSE r \in rows : \A q \in rows : r.rowid <= q.rowid
         IN  <<first>> \o ScanOrder(rows \ {first})

\* a row as the 4-tuple fetchall() returns
RowTuple(r) == <<r.name, r.primary_address, r.secondary_address, r.description>>

FetchAll(t, filter) ==
    LET scan == ScanOrder(SelectedRows(t, filter))
    IN  [i \in 1..Len(scan) |-> RowTuple(scan[i])]

\* mutant: the existence check made with the LIKE of get_configs
SelectExists_Like(t, name) ==
    \E r \in t : LikeMatch(LikePattern(name), r.name)

\* SELECT 1 FROM dns_configs WHERE name = ?  ... fetchone() is not None
SelectExists(t, name) == \E r \in t : r.name = name

(***************************************************************************)
(* The sqlite3 connection of a process (default isolation level, rollback  *)
(* journal): txn is Connection.in_transaction, lock the file lock the      *)
(* connection holds and view the table with the connection's uncommitted   *)
(* writes (kept only while it holds the RESERVED lock).  A world w is the  *)
(* database file with the connections on it.                               *)
(***************************************************************************)
IdleConn == [txn |-> FALSE, lock |-> "none", view |-> {}]

\* fault is the fault of the disk under the call that is made in w: 0 for
\* none, k when the k-th SELECT the call executes fails.
World(d, c) == [db |-> d, conn |-> c, fault |-> 0]

\* the rows a statement of process p reads
Visible(w, p) == IF w.conn[p].lock = "reserved" THEN w.conn[p].view ELSE w.db

StmtResult(w, err, rowcount) == [w |-> w, err |-> err, rowcount |-> rowcount]

\* A SELECT takes the SHARED lock; inside a transaction the lock is kept
\* until the transaction ends.
SqlSelect(w, p) ==
    LET w1 == [w EXCEPT !.fault = IF @ > 0 THEN @ - 1 ELSE 0]
    IN  IF w.conn[p].txn /\ w.conn[p].lock = "none"
        THEN [w1 EXCEPT !.conn[p].lock = "shared"]
        ELSE w1

\* the SELECT that w executes next raises sqlite3.DatabaseError
SelectFails(w) == w.fault = 1

\* connection.execute("BEGIN")
SqlBegin(w, p) ==
    IF w.conn[p].txn
    THEN StmtResult(w, "OperationalError", 0)
    ELSE StmtResult([w EXCEPT !.conn[p].txn = TRUE], "none", 0)

\* cursor.execute of an INSERT, UPDATE or DELETE whose effect on the rows it
\* reads is dml.  The sqlite3 module opens a transaction first when none is
\* open; the statement needs the RESERVED lock, which one connection holds
\* at a time ("database is locked" once the busy timeout has passed); a
\* statement that fails changes no row and leaves the transaction open.
SqlWrite(w, p, dml) ==
    LET w1 == [w EXCEPT !.conn[p].txn = TRUE]
        busy == \E q \in Procs \ {p} : w.conn[q].lock = "reserved"
    IN  IF dml.err = "OperationalError" THEN StmtResult(w1, dml.err, 0)
        ELSE IF busy THEN StmtResult(w1, "OperationalError", 0)
        ELSE StmtResult(
                 [w1 EXCEPT !.conn[p].lock = "reserved",
                            !.conn[p].view = dml.table],
                 dml.err, dml.rowcount)

\* connection.commit(): nothing when no transaction is open; a transaction
\* with writes needs the EXCLUSIVE lock, which waits for the readers.
SqlCommit(w, p) ==
    IF ~w.conn[p].txn THEN StmtResult(w, "none", 0)
    ELSE IF w.conn[p].lock # "reserved"
    THEN StmtResult([w EXCEPT !.conn[p] = IdleConn], "none", 0)
    ELSE IF \E q \in Procs \ {p} : w.conn[q].lock = "shared"
    THEN StmtResult(w, "OperationalError", 0)
    ELSE StmtResult([w EXCEPT !.db = w.conn[p].view, !.conn[p] = IdleConn], "none", 0)

\* connection.rollback()
SqlRollback(w, p) == [w EXCEPT !.conn[p] = IdleConn]

(***************************************************************************)
(* Handler calls.  A frame is a call of a handler: op and the arguments a, *)
(* pc the statement the call executes next, and, once pc = "done", the     *)
(* exception raised (exc, with msg naming the raise statement) and the     *)
(* value returned (ret, a sequence; <<>> for None).  Step executes the     *)
(* next SQL statement of the call with the Python code around it: a        *)
(* statement is the unit SQLite runs without another process's statement   *)
(* in between.                                                             *)
(***************************************************************************)
Args(id, name, primary, secondary, description) ==
    [id |-> id, name |-> name, primary |-> primary,
     secondary |-> secondary, description |-> description]

NoArgs == Args(None, None, None, None, None)

Frame(op, a, pc, exc, msg, ret) ==
    [op |-> op, a |-> a, pc |-> pc, exc |-> exc, msg |-> msg, ret |-> ret]

NewFrame(op, a) == Frame(op, a, "start", "none", "", <<>>)

IdleFrame == Frame("none", NoArgs, "done", "none", "", <<>>)

At(f, pc) == [f EXCEPT !.pc = pc]
Return(f, ret) == [f EXCEPT !.pc = "done", !.ret = ret]
Raise(f, exc, msg) == [f EXCEPT !.pc = "done", !.exc = exc, !.msg = msg]

Out(w, f) == [w |-> w, f |-> f]

\* what a call of config_exists gives: the exception it raises, or the
\* boolean it returns
Checked(err, found) == [err |-> err, found |-> found]

\* mutant: the test made on fetchall(), which is never None
config_exists_Fetchall(w, p, name) ==
    IF SelectFails(w) THEN Checked("RuntimeError", FALSE)
    ELSE Checked("none", TRUE)

\* mutant: the except clause returning False
config_exists_Swallowed(w, p, name) ==
    IF SelectFails(w) THEN Checked("none", FALSE)
    ELSE Checked("none", SelectExists(Visible(SqlSelect(w, p), p), name))

\* config_exists(name), as the handlers call it: a sqlite3.DatabaseError of
\* the SELECT is raised as a RuntimeError
config_exists(w, p, name) ==
    IF SelectFails(w) THEN Checked("RuntimeError", FALSE)
    ELSE Checked("none", SelectExists(Visible(SqlSelect(w, p), p), name))

\* the RuntimeError of config_exists leaves the handler that called it
\* (remove_config catches sqlite3.DatabaseError only)
ReadFailed(w, f) == Out(w, Raise(f, "RuntimeError", "read"))

\* the except clauses of add_config: every error of the INSERT or of the
\* commit is raised as a RuntimeError, and nothing is rolled back
AddFailed(r, f) ==
    Out(r.w, Raise(f, "RuntimeError",
                   IF r.err = "IntegrityError" THEN "integrity" ELSE "database"))

add_config(w, p, f) ==
    CASE f.pc = "start" ->
           IF config_exists(w, p, f.a.id[1]).err # "none" THEN ReadFailed(w, f)
           ELSE IF config_exists(w, p, f.a.id[1]).found
           THEN Out(SqlSelect(w, p), Raise(f, "ValueError", "exists"))
           ELSE Out(SqlSelect(w, p), At(f, "write"))
      [] f.pc = "write" ->
           LET r == SqlWrite(w, p,
                        InsertRow(Visible(w, p), f.a.id[1], f.a.primary[1],
                                  f.a.secondary, f.a.description))
           IN  IF r.err # "none" THEN AddFailed(r, f) ELSE Out(r.w, At(f, "commit"))
      [] f.pc = "commit" ->
           LET r == SqlCommit(w, p)
           IN  IF r.err # "none" THEN AddFailed(r, f) ELSE Out(r.w, Return(f, <<>>))

\* mutant: the second check made without name != identifier
ChecksNewName_NoSelfTest(a) == TruthyName(a.name)

\* the second check of modify_config is made when
\* name and name != identifier
ChecksNewName(a) == TruthyName(a.name) /\ a.name[1] # a.id[1]

\* the statements inside the try of modify_config, remove_config and
\* clear_configs: BEGIN, the write, the test of rowcount, commit, and on a
\* sqlite3.DatabaseError rollback and RuntimeError.  The ValueError raised
\* for rowcount == 0 is no DatabaseError: it leaves the try as it is.
Transaction(w, p, f, dml, testsRowcount) ==
    CASE f.pc = "begin" ->
           LET r == SqlBegin(w, p)
           IN  Out(r.w, At(f, IF r.err # "none" THEN "rollback" ELSE "write"))
      [] f.pc = "write" ->
           LET r == SqlWrite(w, p, dml)
           IN  IF r.err # "none" THEN Out(r.w, At(f, "rollback"))
               ELSE IF testsRowcount /\ r.rowcount = 0
               THEN Out(r.w, Raise(f, "ValueError", "notfound"))
               ELSE Out(r.w, At(f, "commit"))
      [] f.pc = "commit" ->
           LET r == SqlCommit(w, p)
           IN  IF r.err # "none" THEN Out(r.w, At(f, "rollback"))
               ELSE Out(r.w, Return(f, <<>>))
      [] f.pc = "rollback" ->
           Out(SqlRollback(w, p), Raise(f, "RuntimeError", "database"))

\* mutant: the update made without the check that identifier exists
modify_config_NoCheck(w, p, f) ==
    CASE f.pc = "start" ->
           Out(SqlSelect(w, p),
               At(f, IF ChecksNewName(f.a) THEN "check2" ELSE "begin"))
      [] f.pc = "check2" ->
           IF config_exists(w, p, f.a.name[1]).err # "none" THEN ReadFailed(w, f)
           ELSE IF config_exists(w, p, f.a.name[1]).found
           THEN Out(SqlSelect(w, p), Raise(f, "ValueError", "exists"))
           ELSE Out(SqlSelect(w, p), At(f, "begin"))
      [] OTHER ->
           Transaction(w, p, f, UpdateRows(Visible(w, p), f.a.id[1], f.a), TRUE)

modify_config(w, p, f) ==
    CASE f.pc = "start" ->
           IF config_exists(w, p, f.a.id[1]).err # "none" THEN ReadFailed(w, f)
           ELSE IF ~config_exists(w, p, f.a.id[1]).found
           THEN Out(SqlSelect(w, p), Raise(f, "ValueError", "notfound"))
           ELSE Out(SqlSelect(w, p),
                    At(f, IF ChecksNewName(f.a) THEN "check2" ELSE "begin"))
      [] f.pc = "check2" ->
           IF config_exists(w, p, f.a.name[1]).err # "none" THEN ReadFailed(w, f)
           ELSE IF config_exists(w, p, f.a.name[1]).found
           THEN Out(SqlSelect(w, p), Raise(f, "ValueError", "exists"))
           ELSE Out(SqlSelect(w, p), At(f, "begin"))
      [] OTHER ->
           Transaction(w, p, f, UpdateRows(Visible(w, p), f.a.id[1], f.a), TRUE)

remove_config(w, p, f) ==
    CASE f.pc = "start" ->
           IF config_exists(w, p, f.a.id[1]).err # "none" THEN ReadFailed(w, f)
           ELSE IF ~config_exists(w, p, f.a.id[1]).found
           THEN Out(SqlSelect(w, p), Raise(f, "ValueError", "notfound"))
           ELSE Out(SqlSelect(w, p), At(f, "begin"))
      [] OTHER ->
           Transaction(w, p, f, DeleteRows(Visible(w, p), f.a.id[1]), TRUE)

\* mutant: clear_configs with the rowcount test of remove_config
clear_configs_TestsRowcount(w, p, f) ==
    Transaction(w, p, IF f.pc = "start" THEN At(f, "begin") ELSE f,
                DeleteAllRows(Visible(w, p)), TRUE)

clear_configs(w, p, f) ==
    Transaction(w, p, IF f.pc = "start" THEN At(f, "begin") ELSE f,
                DeleteAllRows(Visible(w, p)), FALSE)

get_configs(w, p, f) ==
    IF SelectFails(w) THEN ReadFailed(w, f)
    ELSE Out(SqlSelect(w, p),
             Return(f, FetchAll(Visible(SqlSelect(w, p), p), f.a.id)))

exists_call(w, p, f) ==
    IF config_exists(w, p, f.a.id[1]).err # "none" THEN ReadFailed(w, f)
    ELSE Out(SqlSelect(w, p), Return(f, <<config_exists(w, p, f.a.id[1]).found>>))

Step(w, p, f) ==
    CASE f.op = "add_config" -> add_config(w, p, f)
      [] f.op = "modify_config" -> modify_config(w, p, f)
      [] f.op = "remove_config" -> remove_config(w, p, f)
      [] f.op = "clear_configs" -> clear_configs(w, p, f)
      [] f.op = "get_configs" -> get_configs(w, p, f)
      [] f.op = "config_exists" -> exists_call(w, p, f)

\* a call run to its end with no statement of another process in between
RECURSIVE Run(_, _, _)
Run(w, p, f) ==
    IF f.pc = "done" THEN Out(w, f)
    ELSE LET o == Step(w, p, f) IN Run(o.w, p, o.f)

(***************************************************************************)
(* The arguments the calls are made with.                                  *)
(***************************************************************************)
Names == {<<>>, <<"a">>, <<"a", "b">>}
Filters == {None, Some(<<"A">>), Some(<<"_">>)} \cup {Some(n) : n \in Names}
NewNames == {None} \cup {Some(n) : n \in Names}
AddPrimaries == {"p"}
AddSecondaries == {None, Some("s")}
AddDescriptions == {None, Some("d")}
NewPrimaries == {None, Some("q")}
NewSecondaries == {None, Some("s"), Some("")}
NewDescriptions == {None, Some("d")}

(***************************************************************************)
(* Spec: one process, p1, uses the store, as the command-line tool does.   *)
(* Each action is one call of a handler, run from its first statement to   *)
(* its return or raise; Finish is the caller taking the outcome.           *)
(***************************************************************************)
Init ==
    /\ LET file == create_table(File({}, {}))
       IN  db = file.db /\ schema = file.schema
    /\ conn = [p \in Procs |-> IdleConn]
    /\ frame = [p \in Procs |-> IdleFrame]
    /\ before = [p \in Procs |-> {}]

Becomes(w) == db' = w.db /\ conn' = w.conn /\ UNCHANGED schema

Ready(p) == frame[p] = IdleFrame

Call(p, op, a) ==
    LET w == World(db, conn)
        o == Run(w, p, NewFrame(op, a))
    IN  /\ Becomes(o.w)
        /\ frame' = [frame EXCEPT ![p] = o.f]
        /\ before' = [before EXCEPT ![p] = Visible(w, p)]

\* the bound on add_config: the name is taken, or the table has room
MayCreate(p, name) ==
    LET t == Visible(World(db, conn), p)
    IN  SelectExists(t, name) \/ NewRowid(t) <= MaxRowid

Create ==
    /\ Ready("p1")
    /\ \E n \in Names, pa \in AddPrimaries, sa \in AddSecondaries, d \in AddDescriptions :
           /\ MayCreate("p1", n)
           /\ Call("p1", "add_config", Args(Some(n), None, Some(pa), sa, d))

Update ==
    /\ Ready("p1")
    /\ \E id \in Names, n \in NewNames, pa \in NewPrimaries,
          sa \in NewSecondaries, d \in NewDescriptions :
           Call("p1", "modify_config", Args(Some(id), n, pa, sa, d))

DeleteOne ==
    /\ Ready("p1")
    /\ \E id \in Names :
           Call("p1", "remove_config", Args(Some(id), None, None, None, None))

DeleteAll ==
    /\ Ready("p1")
    /\ Call("p1", "clear_configs", NoArgs)

Query ==
    /\ Ready("p1")
    /\ \E flt \in Filters :
           Call("p1", "get_configs", Args(flt, None, None, None, None))

Exists ==
    /\ Ready("p1")
    /\ \E n \in Names :
           Call("p1", "config_exists", Args(Some(n), None, None, None, None))

\* The tool is started again: the connection of the process that ends is
\* closed (__del__: what it had not committed is lost), and __init__
\* connects to the same file and calls _create_table.
Open ==
    /\ Ready("p1")
    /\ LET file == create_table(File(schema, db))
       IN  db' = file.db /\ schema' = file.schema
    /\ conn' = [conn EXCEPT !["p1"] = IdleConn]
    /\ frame' = [frame EXCEPT !["p1"] = Return(NewFrame("__init__", NoArgs), <<>>)]
    /\ before' = [before EXCEPT !["p1"] = db]

Finish(p) ==
    /\ frame[p].pc = "done" /\ frame[p].op # "none"
    /\ frame' = [frame EXCEPT ![p] = IdleFrame]
    /\ before' = [before EXCEPT ![p] = {}]
    /\ UNCHANGED <<db, conn, schema>>

Finished ==
    /\ ~Ready("p1")
    /\ Finish("p1")

Next ==
    \/ Create \/ Update \/ DeleteOne \/ DeleteAll \/ Query \/ Exists
    \/ Open \/ Finished

Spec == Init /\ [][Next]_vars

(***************************************************************************)
(* SpecConc: two processes use the same database file, each through its    *)
(* own connection.  A call starts with its first statement (Begin...) and  *)
(* goes on one statement at a time (Continue), so that statements of the   *)
(* other process may come in between.                                      *)
(***************************************************************************)
ConcNames == {<<"a">>, <<"a", "b">>}
\* the new name and the new primary address of an update
ConcChanges == {<<None, Some("q")>>} \cup {<<Some(n), None>> : n \in ConcNames}

Start(p, op, a) ==
    LET w == World(db, conn)
        o == Step(w, p, NewFrame(op, a))
    IN  /\ Becomes(o.w)
        /\ frame' = [frame EXCEPT ![p] = o.f]
        /\ UNCHANGED before

BeginCreate(p) ==
    /\ Ready(p)
    /\ \E n \in ConcNames :
           /\ MayCreate(p, n)
           /\ Start(p, "add_config", Args(Some(n), None, Some("p"), None, None))

BeginUpdate(p) ==
    /\ Ready(p)
    /\ \E id \in ConcNames, ch \in ConcChanges :
           Start(p, "modify_config", Args(Some(id), ch[1], ch[2], None, None))

BeginDeleteOne(p) ==
    /\ Ready(p)
    /\ \E id \in ConcNames :
           Start(p, "remove_config", Args(Some(id), None, None, None, None))

BeginDeleteAll(p) ==
    /\ Ready(p)
    /\ Start(p, "clear_configs", NoArgs)

Continue(p) ==
    /\ frame[p].pc # "done"
    /\ LET o == Step(World(db, conn), p, frame[p])
       IN  /\ Becomes(o.w)
           /\ frame' = [frame EXCEPT ![p] = o.f]
           /\ UNCHANGED before

Finishes(p) ==
    /\ ~Ready(p)
    /\ Finish(p)

NextConc ==
    \E p \in Procs :
        \/ BeginCreate(p)
        \/ BeginUpdate(p)
        \/ BeginDeleteOne(p)
        \/ BeginDeleteAll(p)
        \/ Continue(p)
        \/ Finishes(p)

SpecConc == Init /\ [][NextConc]_vars

(***************************************************************************)
(* SpecFault: one process uses the store on a disk that may fail a read.   *)
(* Each call is made with fails, the fault it meets (0 for none, k when    *)
(* the k-th SELECT it executes fails); fails is kept with the arguments of *)
(* the call.                                                               *)
(***************************************************************************)
Faults == {0, 1, 2}

Met(a, fails) == a @@ [fails |-> fails]

CallUnder(p, op, a, fails) ==
    LET w == [World(db, conn) EXCEPT !.fault = fails]
        o == Run(w, p, NewFrame(op, Met(a, fails)))
    IN  /\ Becomes(o.w)
        /\ frame' = [frame EXCEPT ![p] = o.f]
        /\ before' = [before EXCEPT ![p] = Visible(w, p)]

TryCreate ==
    /\ Ready("p1")
    /\ \E n \in ConcNames, fails \in Faults :
           /\ MayCreate("p1", n)
           /\ CallUnder("p1", "add_config",
                        Args(Some(n), None, Some("p"), None, None), fails)

TryUpdate ==
    /\ Ready("p1")
    /\ \E id \in ConcNames, ch \in ConcChanges, fails \in Faults :
           CallUnder("p1", "modify_config",
                     Args(Some(id), ch[1], ch[2], None, None), fails)

TryDeleteOne ==
    /\ Ready("p1")
    /\ \E id \in ConcNames, fails \in Faults :
           CallUnder("p1", "remove_config",
                     Args(Some(id), None, None, None, None), fails)

TryExists ==
    /\ Ready("p1")
    /\ \E n \in ConcNames, fails \in Faults :
           CallUnder("p1", "config_exists",
                     Args(Some(n), None, None, None, None), fails)

TryQuery ==
    /\ Ready("p1")
    /\ \E fails \in Faults :
           CallUnder("p1", "get_configs", NoArgs, fails)

NextFault ==
    \/ TryCreate \/ TryUpdate \/ TryDeleteOne \/ TryExists \/ TryQuery
    \/ Finished

SpecFault == Init /\ [][NextFault]_vars

(***************************************************************************)
(* SpecCli: the commands of the command-line tool (src/dns_master_cli.py). *)
(* remove, modify and clear take force, the --force flag or the answer to  *)
(* the confirmation prompt, and return at once when it is false; force is  *)
(* kept with the arguments of the command.  A command that was cancelled   *)
(* leaves the frame of the command (op the name of the command, msg        *)
(* "cancelled"); a command that called the store leaves the frame of the   *)
(* call.  The exception of a failed call is logged, not raised.            *)
(***************************************************************************)
Asked(a, force) == a @@ [force |-> force]

\* mutant: the command carried out whatever the answer
Declined_Never(force) == force /\ ~force

\* if not force: ... return
Declined(force) == ~force

Command(p, cmd, op, a, force) ==
    IF Declined(force)
    THEN /\ frame' = [frame EXCEPT
                         ![p] = Frame(cmd, Asked(a, force), "done", "none",
                                      "cancelled", <<>>)]
         /\ before' = [before EXCEPT ![p] = Visible(World(db, conn), p)]
         /\ UNCHANGED <<db, conn, schema>>
    ELSE Call(p, op, Asked(a, force))

AddCommand ==
    /\ Ready("p1")
    /\ \E n \in ConcNames, sa \in AddSecondaries :
           /\ MayCreate("p1", n)
           /\ Call("p1", "add_config", Args(Some(n), None, Some("p"), sa, None))

RemoveCommand ==
    /\ Ready("p1")
    /\ \E id \in ConcNames, force \in BOOLEAN :
           Command("p1", "remove", "remove_config",
                   Args(Some(id), None, None, None, None), force)

ModifyCommand ==
    /\ Ready("p1")
    /\ \E id \in ConcNames, ch \in ConcChanges, force \in BOOLEAN :
           Command("p1", "modify", "modify_config",
                   Args(Some(id), ch[1], ch[2], None, None), force)

ClearCommand ==
    /\ Ready("p1")
    /\ \E force \in BOOLEAN :
           Command("p1", "clear", "clear_configs", NoArgs, force)

NextCli ==
    \/ AddCommand \/ RemoveCommand \/ ModifyCommand \/ ClearCommand
    \/ Finished

SpecCli == Init /\ [][NextCli]_vars

(***************************************************************************)
(* The properties of the store.  In Spec the call of p1 that has returned  *)
(* or raised is frame["p1"], and before["p1"] holds the rows before it.    *)
(***************************************************************************)
Ended(p, op) == frame[p].op = op /\ frame[p].pc = "done"
RowNames(t) == {r.name : r \in t}
NoNameTwice(t) == Cardinality(RowNames(t)) = Cardinality(t)
Raised(p, exc, msg) == frame[p].exc = exc /\ frame[p].msg = msg
Succeeded(p) == frame[p].exc = "none"

\* C1: in every reachable state, with two processes calling Create, Update
\* (renames too), DeleteOne and DeleteAll on the same database, no two
\* records have the same name: not in the database file, and not among the
\* rows a connection sees with its own uncommitted writes.
C1_UniqueNames ==
    /\ NoNameTwice(db)
    /\ \A p \in Procs : NoNameTwice(IF conn[p].lock = "reserved" THEN conn[p].view ELSE db)

\* the two processes raced to create the same name and the UNIQUE
\* constraint refused the second INSERT
C1_Witness ==
    /\ Ended("p1", "add_config") /\ Succeeded("p1")
    /\ Ended("p2", "add_config") /\ Raised("p2", "RuntimeError", "integrity")
    /\ frame["p1"].a.id = frame["p2"].a.id
    /\ Cardinality(db) = 2

\* C2: Create of a name that a record already has fails with DuplicateName
\* (ValueError) and leaves every record as it was; Create of a name no
\* record has succeeds and adds exactly one record, of that name.
C2_CreateDuplicate ==
    Ended("p1", "add_config") =>
        LET name == frame["p1"].a.id[1]
            old == before["p1"]
        IN  IF name \in RowNames(old)
            THEN Raised("p1", "ValueError", "exists") /\ db = old
            ELSE /\ Succeeded("p1")
                 /\ old \subseteq db
                 /\ Cardinality(db) = Cardinality(old) + 1
                 /\ \A r \in db \ old : r.name = name

\* a Create of a taken name, with other arguments than the record's, on a
\* store of two records
C2_Witness ==
    /\ Ended("p1", "add_config") /\ Raised("p1", "ValueError", "exists")
    /\ Cardinality(db) = 2
    /\ \E r \in db : /\ r.name = frame["p1"].a.id[1]
                     /\ r.secondary_address # frame["p1"].a.secondary

\* C3 (as claimed): the existence check and the write of Create are one
\* atomic transaction, so no write another process commits takes effect
\* between them: of two processes racing to create the same name one
\* succeeds and the other fails with DuplicateName, and no Create ends in
\* the storage fault (RuntimeError) of a violated UNIQUE constraint.
C3_CheckAndWriteAtomic ==
    \A p \in Procs :
        Ended(p, "add_config") => ~Raised(p, "RuntimeError", "integrity")

\* C4: a successful Update changes only the fields that were supplied, on
\* the record named identifier: each omitted field keeps its value, and
\* every other record is unchanged.
C4_PartialUpdate ==
    (Ended("p1", "modify_config") /\ Succeeded("p1")) =>
        LET a == frame["p1"].a
            old == before["p1"]
        IN  /\ \A r \in old : r.name # a.id[1] => r \in db
            /\ Cardinality(db) = Cardinality(old)
            /\ \E r0 \in old, r1 \in db :
                   /\ r0.name = a.id[1]
                   /\ r1.rowid = r0.rowid /\ r1.born = r0.born
                   /\ a.name = None => r1.name = r0.name
                   /\ a.primary = None => r1.primary_address = r0.primary_address
                   /\ a.secondary = None => r1.secondary_address = r0.secondary_address
                   /\ a.description = None => r1.description = r0.description

\* the update of the test: primary address and description supplied, on a
\* record with a secondary address, beside another record
C4_Witness ==
    /\ Ended("p1", "modify_config") /\ Succeeded("p1")
    /\ frame["p1"].a.name = None /\ frame["p1"].a.secondary = None
    /\ frame["p1"].a.primary = Some("q") /\ frame["p1"].a.description = Some("d")
    /\ Cardinality(db) = 2
    /\ \E r0 \in before["p1"], r1 \in db :
           /\ r0.name = frame["p1"].a.id[1] /\ r1.name = r0.name
           /\ r0.primary_address = "p" /\ r0.description = None
           /\ r1.primary_address = "q" /\ r1.description = Some("d")
           /\ r1.secondary_address = Some("s")

\* C5: Update and DeleteOne of an identifier no record has fail with
\* NotFound (ValueError) and leave the store unchanged, whatever the
\* arguments of Update.
C5_NotFound ==
    \A op \in {"modify_config", "remove_config"} :
        (Ended("p1", op) /\ frame["p1"].a.id[1] \notin RowNames(before["p1"])) =>
            /\ Raised("p1", "ValueError", "notfound")
            /\ db = before["p1"]

\* an Update with no field supplied, of an identifier no record has, on a
\* store that has records
C5_Witness ==
    /\ Ended("p1", "modify_config") /\ Raised("p1", "ValueError", "notfound")
    /\ SetListEmpty(frame["p1"].a)
    /\ db # {}

\* C6: Update of an existing identifier fails with DuplicateName exactly
\* when new_name is supplied, non-empty, different from identifier and the
\* name of a record; both records are then as before.  Renaming a record
\* to its own name is no collision.
RenameCollides(old, a) ==
    /\ a.name # None /\ a.name[1] # <<>>
    /\ a.name[1] # a.id[1]
    /\ a.name[1] \in RowNames(old)

C6_RenameCollision ==
    (Ended("p1", "modify_config") /\ frame["p1"].a.id[1] \in RowNames(before["p1"])) =>
        /\ Raised("p1", "ValueError", "exists") <=> RenameCollides(before["p1"], frame["p1"].a)
        /\ RenameCollides(before["p1"], frame["p1"].a) => db = before["p1"]

\* a rename onto the name of the other record
C6_Witness ==
    /\ Ended("p1", "modify_config") /\ Raised("p1", "ValueError", "exists")
    /\ Cardinality(db) = 2
    /\ RenameCollides(db, frame["p1"].a)

\* sub occurs in s as it stands: the same characters, in the same case
Contains(s, sub) ==
    \E i \in 0..(Len(s) - Len(sub)) : SubSeq(s, i + 1, i + Len(sub)) = sub

Returned(p) == {frame[p].ret[i] : i \in 1..Len(frame[p].ret)}

\* C7 (as claimed): Query with a non-empty filter returns exactly the
\* records whose name contains the filter as a case-sensitive, literal
\* substring, each once, and the empty sequence when there is none.
C7_LiteralSubstring ==
    (Ended("p1", "get_configs") /\ TruthyName(frame["p1"].a.id)) =>
        /\ Succeeded("p1")
        /\ Returned("p1") = {RowTuple(r) : r \in {q \in db : Contains(q.name, frame["p1"].a.id[1])}}
        /\ Len(frame["p1"].ret) = Cardinality(Returned("p1"))

\* the Query on the name of the last call's arguments, made in this state
QueryByName(p) ==
    Run(World(db, conn), p,
        NewFrame("get_configs", Args(frame[p].a.id, None, None, None, None))).f.ret

CreatedTuple(a) == <<a.id[1], a.primary[1], a.secondary, a.description>>

\* C8 (as claimed): after a successful Create (of a non-empty name, as
\* Create requires), a Query on that exact name returns a single record:
\* the four Create arguments, an optional that was not given being None.
C8_RoundTripSingle ==
    (Ended("p1", "add_config") /\ Succeeded("p1") /\ frame["p1"].a.id[1] # <<>>) =>
        QueryByName("p1") = <<CreatedTuple(frame["p1"].a)>>

\* C8 (amended): after a successful Create, a Query on that exact name
\* returns exactly one record of that name, and it is the four Create
\* arguments, an optional that was not given being None; the Query may
\* return records of other names that match the filter beside it.
C8_RoundTrip ==
    (Ended("p1", "add_config") /\ Succeeded("p1")) =>
        LET res == QueryByName("p1")
            a == frame["p1"].a
        IN  /\ Cardinality({i \in 1..Len(res) : res[i][1] = a.id[1]}) = 1
            /\ \A i \in 1..Len(res) : res[i][1] = a.id[1] => res[i] = CreatedTuple(a)

\* a Create with only the secondary address given, whose name is part of
\* another record's name: the Query returns both records
C8_Witness ==
    /\ Ended("p1", "add_config") /\ Succeeded("p1")
    /\ frame["p1"].a.id = Some(<<"a">>)
    /\ frame["p1"].a.secondary = Some("s") /\ frame["p1"].a.description = None
    /\ Len(QueryByName("p1")) = 2

\* the record a returned tuple was read from
RowOf(tuple) == CHOOSE r \in db : RowTuple(r) = tuple

\* C9: Query with no filter returns every record exactly once, in the
\* order in which the records were created, whatever calls were made
\* before; a Query with a filter returns its matches, each once, in that
\* same order.
C9_CreationOrder ==
    Ended("p1", "get_configs") =>
        LET ret == frame["p1"].ret
        IN  /\ Returned("p1") \subseteq {RowTuple(r) : r \in db}
            /\ \A i, j \in 1..Len(ret) : i < j => RowOf(ret[i]).born < RowOf(ret[j]).born
            /\ frame["p1"].a.id = None =>
                   /\ Returned("p1") = {RowTuple(r) : r \in db}
                   /\ Len(ret) = Cardinality(db)

\* a Query with no filter returning two records, the older of which has
\* been updated since and sorts after the younger by name
C9_Witness ==
    /\ Ended("p1", "get_configs") /\ frame["p1"].a.id = None
    /\ Len(frame["p1"].ret) = 2
    /\ frame["p1"].ret[1][1] = <<"a", "b">> /\ frame["p1"].ret[1][2] = "q"
    /\ frame["p1"].ret[2][1] = <<>>

Mutating == {"add_config", "modify_config", "remove_config", "clear_configs"}

\* C10 (as claimed): when a mutating call fails with StorageFault
\* (RuntimeError), its transaction has been rolled back before the error
\* is raised: the connection has no transaction open, holds no lock and
\* has no uncommitted row.
C10_RolledBackOnFault ==
    \A p \in Procs :
        (frame[p].op \in Mutating /\ frame[p].pc = "done" /\ frame[p].exc = "RuntimeError")
            => conn[p] = IdleConn

\* the handlers that look the identifier up before they write
Looked == {"modify_config", "remove_config"}

\* C11 (as claimed): when the write of Update or of DeleteOne affects zero
\* rows, the record having vanished between the existence check and the
\* write, the call fails with NotFound (ValueError), the transaction it
\* began has been rolled back (the connection has no transaction open and
\* holds no lock) and the store is unchanged.
C11_VanishedRolledBack ==
    [][\A p \in Procs :
          (/\ frame[p].op \in Looked /\ frame[p].pc = "write"
           /\ frame'[p].pc = "done" /\ frame'[p].exc = "ValueError")
              => (conn'[p] = IdleConn /\ db' = db)]_vars

\* C12 (as claimed): in every reachable state every record has a non-empty
\* name and a present, non-empty primary address: Create rejects an empty
\* name or primary address without inserting, and no Update makes them
\* empty.
C12_RequiredFieldsNonEmpty ==
    \A r \in db : r.name # <<>> /\ r.primary_address # ""

\* C13 (as claimed): on a healthy store used by one process, no call of
\* Create, Update, DeleteOne, DeleteAll, Query or Exists ends in
\* StorageFault (RuntimeError), whatever calls failed before it and
\* whichever optional arguments are omitted (stated for the calls whose
\* name or identifier is not the empty string).
C13_FaultOnlyFromStorage ==
    (frame["p1"].pc = "done" /\ frame["p1"].a.id # Some(<<>>))
        => frame["p1"].exc # "RuntimeError"

\* the call of p has failed a validation: it raised from the raise
\* statement for a missing identifier or from the one for a taken name
FailedValidation(p) ==
    frame[p].pc = "done" /\ frame[p].exc # "none"
        /\ frame[p].msg \in {"notfound", "exists"}

\* C14 (as claimed): the error kinds are distinct: two calls that failed
\* from different causes (a missing identifier, a name that is taken) have
\* raised exceptions of different kinds.
C14_DistinctKinds ==
    \A p, q \in Procs :
        (FailedValidation(p) /\ FailedValidation(q) /\ frame[p].msg # frame[q].msg)
            => frame[p].exc # frame[q].exc

\* Exists(name) called in this state
ExistsNow(p, name) ==
    Run(World(db, conn), p,
        NewFrame("config_exists", Args(Some(name), None, None, None, None))).f.ret[1]

\* Query with no filter, called by p1 on a store that holds the rows t
QueryAll(t) == Run(World(t, conn), "p1", NewFrame("get_configs", NoArgs)).f.ret

\* C15: a successful DeleteOne removes exactly the record named identifier:
\* afterwards Exists of that name is false and a Query on it does not
\* return it, every other record is unchanged, and the other records come
\* in the order they had.
C15_DeleteOneExact ==
    (Ended("p1", "remove_config") /\ Succeeded("p1")) =>
        LET id == frame["p1"].a.id[1]
            old == before["p1"]
            res == QueryByName("p1")
        IN  /\ db = {r \in old : r.name # id}
            /\ Cardinality(db) = Cardinality(old) - 1
            /\ ~ExistsNow("p1", id)
            /\ \A i \in 1..Len(res) : res[i][1] # id
            /\ QueryAll(db) = SelectSeq(QueryAll(old), LAMBDA x : x[1] # id)

\* the older of two records deleted, its name being part of the name of
\* the record that stays
C15_Witness ==
    /\ Ended("p1", "remove_config") /\ Succeeded("p1")
    /\ Cardinality(before["p1"]) = 2
    /\ frame["p1"].a.id[1] # <<>>
    /\ \E r \in db : /\ Contains(r.name, frame["p1"].a.id[1])
                     /\ \A q \in before["p1"] : q.born <= r.born

\* DeleteAll called once more in this state
ClearAgain(p) == Run(World(db, conn), p, NewFrame("clear_configs", NoArgs))

\* C16: DeleteAll succeeds from every store one process can reach, the
\* empty store included, and leaves no record; a Query with no filter then
\* returns the empty sequence, and a second DeleteAll succeeds and leaves
\* the store as the first left it.
C16_ClearIdempotent ==
    Ended("p1", "clear_configs") =>
        /\ Succeeded("p1")
        /\ db = {}
        /\ QueryAll(db) = <<>>
        /\ ClearAgain("p1").f.exc = "none"
        /\ ClearAgain("p1").w = World(db, conn)

\* a DeleteAll of the empty store
C16_Witness ==
    /\ Ended("p1", "clear_configs") /\ Succeeded("p1")
    /\ before["p1"] = {}

\* C17: Exists(name) returns true exactly when a record has exactly that
\* name, and neither Exists nor Query changes a record or leaves a
\* transaction open.
C17_ExistsExactReadOnly ==
    /\ Ended("p1", "config_exists") =>
           /\ Succeeded("p1")
           /\ frame["p1"].ret = <<frame["p1"].a.id[1] \in RowNames(before["p1"])>>
    /\ (Ended("p1", "config_exists") \/ Ended("p1", "get_configs")) =>
           /\ db = before["p1"]
           /\ conn["p1"] = IdleConn

\* Exists of a name that no record has but that is part of a record's name
C17_Witness ==
    /\ Ended("p1", "config_exists")
    /\ frame["p1"].ret = <<FALSE>>
    /\ frame["p1"].a.id[1] # <<>>
    /\ \E r \in db : Contains(r.name, frame["p1"].a.id[1])

\* C18: opening the store on a database that holds records leaves every
\* record as it was, and the table in place; initializing once more then
\* changes nothing.
C18_InitIdempotent ==
    Ended("p1", "__init__") =>
        /\ Succeeded("p1")
        /\ db = before["p1"]
        /\ schema = {"dns_configs"}
        /\ create_table(File(schema, db)) = File(schema, db)

\* the store opened on a database of two records, one of them with a
\* secondary address and a description
C18_Witness ==
    /\ Ended("p1", "__init__")
    /\ Cardinality(db) = 2
    /\ \E r \in db : r.secondary_address = Some("s") /\ r.description = Some("d")

\* no new value is given: the four optional arguments are all omitted
NoNewValues(a) ==
    a.name = None /\ a.primary = None /\ a.secondary = None /\ a.description = None

\* C19: modifying an existing configuration with no new value given (new
\* name, primary address, secondary address and description all omitted)
\* changes no record, and leaves no change uncommitted.
C19_NoValuesNoChange ==
    (/\ Ended("p1", "modify_config") /\ NoNewValues(frame["p1"].a)
     /\ frame["p1"].a.id[1] \in RowNames(before["p1"]))
        => (db = before["p1"] /\ conn["p1"] = IdleConn)

\* such a call on a record that has a secondary address and a description,
\* beside another record; the call has ended with the RuntimeError of the
\* statement that sets nothing
C19_Witness ==
    /\ Ended("p1", "modify_config") /\ NoNewValues(frame["p1"].a)
    /\ Raised("p1", "RuntimeError", "database")
    /\ Cardinality(db) = 2
    /\ \E r \in db : /\ r.name = frame["p1"].a.id[1]
                     /\ r.secondary_address = Some("s")
                     /\ r.description = Some("d")

\* the record named identifier has become the record named n, in place,
\* with the values of the fields that were not supplied
Renamed(old, a) ==
    LET id == a.id[1]
        n == a.name[1]
    IN  /\ id \notin RowNames(db) /\ n \in RowNames(db)
        /\ ~ExistsNow("p1", id) /\ ExistsNow("p1", n)
        /\ Cardinality(db) = Cardinality(old)
        /\ \E r0 \in old, r1 \in db :
               /\ r0.name = id /\ r1.name = n
               /\ r1.rowid = r0.rowid /\ r1.born = r0.born
               /\ a.primary = None => r1.primary_address = r0.primary_address
               /\ a.secondary = None => r1.secondary_address = r0.secondary_address
               /\ a.description = None => r1.description = r0.description

\* C20 (as claimed): a successful Update(identifier, new_name=n) with any n
\* different from identifier renames the record in place: afterwards
\* Exists(identifier) is false, Exists(n) is true, the number of records
\* is unchanged and the renamed record keeps the values of the fields that
\* were not supplied.
C20_RenameAny ==
    (/\ Ended("p1", "modify_config") /\ Succeeded("p1")
     /\ frame["p1"].a.name # None /\ frame["p1"].a.name[1] # frame["p1"].a.id[1])
        => Renamed(before["p1"], frame["p1"].a)

\* C20 (amended): a successful Update(identifier, new_name=n) with n not
\* the empty string and different from identifier renames the record in
\* place: afterwards Exists(identifier) is false, Exists(n) is true, the
\* number of records is unchanged and the renamed record keeps the values
\* of the fields that were not supplied.
C20_Rename ==
    (/\ Ended("p1", "modify_config") /\ Succeeded("p1")
     /\ frame["p1"].a.name # None /\ frame["p1"].a.name[1] # <<>>
     /\ frame["p1"].a.name[1] # frame["p1"].a.id[1])
        => Renamed(before["p1"], frame["p1"].a)

\* a record with a secondary address and a description renamed, only the
\* new name being supplied, beside another record
C20_Witness ==
    /\ Ended("p1", "modify_config") /\ Succeeded("p1")
    /\ frame["p1"].a.id = Some(<<"a">>) /\ frame["p1"].a.name = Some(<<"a", "b">>)
    /\ frame["p1"].a.primary = None /\ frame["p1"].a.secondary = None
    /\ frame["p1"].a.description = None
    /\ Cardinality(db) = 2
    /\ \E r \in db : /\ r.name = <<"a", "b">>
                     /\ r.secondary_address = Some("s")
                     /\ r.description = Some("d")

\* C21 (as claimed): in a successful Update a field argument supplied as
\* the empty string is treated like an omitted one, for each of the four
\* fields: the record keeps the value it had of that field (stated for the
\* calls whose identifier is not the empty string).
C21_EmptyIsOmitted ==
    (/\ Ended("p1", "modify_config") /\ Succeeded("p1")
     /\ frame["p1"].a.id[1] # <<>>) =>
        LET a == frame["p1"].a
        IN  \A r0 \in before["p1"], r1 \in db :
                r0.rowid = r1.rowid =>
                    /\ a.name = Some(<<>>) => r1.name = r0.name
                    /\ a.primary = Some("") => r1.primary_address = r0.primary_address
                    /\ a.secondary = Some("") => r1.secondary_address = r0.secondary_address
                    /\ a.description = Some("") => r1.description = r0.description

\* Create called in this state with the arguments a
CreateNow(p, a) == Run(World(db, conn), p, NewFrame("add_config", a))

\* a Create of name in this state succeeds, whatever its other arguments,
\* and the one record of that name then holds exactly those arguments
CreatesAfresh(name) ==
    \A pa \in AddPrimaries, sa \in AddSecondaries, d \in AddDescriptions :
        LET a == Args(Some(name), None, Some(pa), sa, d)
            o == CreateNow("p1", a)
        IN  /\ o.f.exc = "none"
            /\ {RowTuple(r) : r \in {q \in o.w.db : q.name = name}} = {CreatedTuple(a)}
            /\ Cardinality({q \in o.w.db : q.name = name}) = 1

\* C22: deletion is immediate and permanent: after a successful DeleteOne
\* of a name, and after a successful DeleteAll for every name the store
\* held, a Create of that name succeeds and the new record holds exactly
\* the arguments of the Create, no value of the deleted record.
C22_DeletePermanent ==
    /\ (Ended("p1", "remove_config") /\ Succeeded("p1")) =>
           CreatesAfresh(frame["p1"].a.id[1])
    /\ (Ended("p1", "clear_configs") /\ Succeeded("p1")) =>
           \A n \in RowNames(before["p1"]) : CreatesAfresh(n)

\* a DeleteOne of a record that had been updated and had a secondary
\* address and a description, none of them an argument of every Create
C22_Witness ==
    /\ Ended("p1", "remove_config") /\ Succeeded("p1")
    /\ \E r \in before["p1"] :
           /\ r.name = frame["p1"].a.id[1] /\ r.name # <<>>
           /\ r.primary_address = "q"
           /\ r.secondary_address = Some("s") /\ r.description = Some("d")

\* the handlers that call config_exists, and config_exists itself
Checking == {"add_config", "modify_config", "remove_config", "config_exists"}

\* the call p has ended met the fault in a read of config_exists: in its
\* first read, or in the second read of an Update, which is made for a new
\* name other than the identifier once the identifier has been found
ReadFaulted(p) ==
    /\ frame[p].pc = "done" /\ frame[p].op \in Checking
    /\ \/ frame[p].a.fails = 1
       \/ /\ frame[p].a.fails = 2 /\ frame[p].op = "modify_config"
          /\ frame[p].a.id[1] \in RowNames(before[p])
          /\ frame[p].a.name # None /\ frame[p].a.name[1] # <<>>
          /\ frame[p].a.name[1] # frame[p].a.id[1]

\* C23: a failure of the existence read is never taken for "does not
\* exist": Exists then fails with StorageFault (RuntimeError), and so does
\* the Create, Update or DeleteOne that made the check, without writing:
\* the records are as before and no transaction is open.
C23_ReadFaultRaised ==
    ReadFaulted("p1") =>
        /\ frame["p1"].exc = "RuntimeError"
        /\ db = before["p1"]
        /\ conn["p1"] = IdleConn

\* a rename of a record to a free name, whose second existence read failed
C23_Witness ==
    /\ ReadFaulted("p1")
    /\ frame["p1"].op = "modify_config" /\ frame["p1"].a.fails = 2
    /\ frame["p1"].a.name[1] \notin RowNames(db)
    /\ frame["p1"].a.id[1] \in RowNames(db)

\* C24: no Update returns an optional field to "no value": whatever the
\* arguments and the outcome of the call, every record is still there, and
\* a secondary address or description that was set (not None) on it before
\* the call is set after it.
C24_SetStaysSet ==
    Ended("p1", "modify_config") =>
        \A r0 \in before["p1"] :
            \E r1 \in db :
                /\ r1.rowid = r0.rowid
                /\ r0.secondary_address # None => r1.secondary_address # None
                /\ r0.description # None => r1.description # None

\* a successful Update that gives the empty string as secondary address to
\* a record that has a secondary address and a description: the secondary
\* address is then the empty string, which is a value
C24_Witness ==
    /\ Ended("p1", "modify_config") /\ Succeeded("p1")
    /\ frame["p1"].a.secondary = Some("") /\ frame["p1"].a.description = None
    /\ \E r0 \in before["p1"], r1 \in db :
           /\ r0.name = frame["p1"].a.id[1] /\ r1.rowid = r0.rowid
           /\ r0.secondary_address = Some("s") /\ r0.description = Some("d")
           /\ r1.secondary_address = Some("") /\ r1.description = Some("d")

\* the commands that ask for confirmation, and the handlers they call
Asking == {"remove", "modify", "clear"}
Confirmed == {"remove_config", "modify_config", "clear_configs"}

\* C25: the remove, modify and clear commands call the store only after
\* confirmation: when force is false the command has ended cancelled, with
\* no call of DeleteOne, Update or DeleteAll, and the records are those
\* that were there before the command.
C25_ConfirmedOnly ==
    (/\ frame["p1"].pc = "done" /\ frame["p1"].op \in Asking \cup Confirmed
     /\ ~frame["p1"].a.force) =>
        /\ frame["p1"].op \in Asking
        /\ frame["p1"].msg = "cancelled"
        /\ db = before["p1"]
        /\ conn["p1"] = IdleConn

\* a remove command, of a record that exists beside another, that was not
\* confirmed
C25_Witness ==
    /\ frame["p1"].pc = "done" /\ frame["p1"].op = "remove"
    /\ ~frame["p1"].a.force
    /\ frame["p1"].a.id[1] \in RowNames(db)
    /\ Cardinality(db) = 2

====
